---- MODULE Spec2Model ----
(***************************************************************************)
(* Companion Vision: the detection queue between camera_task and           *)
(* audio_task (main.c), the tone patterns of embedded_audio.c and the WAV  *)
(* player of wav_player.c, as state machines.                              *)
(*                                                                         *)
(* FreeRTOS and the ESP-IDF drivers are libraries outside the repository;  *)
(* their calls are modelled by their documented behaviour:                 *)
(*   xQueueSend(q, item, 0)        appends, or fails at once on a full q   *)
(*   xQueueReceive(q, .., portMAX_DELAY)   blocks while q is empty         *)
(*   i2s_channel_write(.., portMAX_DELAY)  blocks until the driver takes   *)
(*                                 the block, or returns an error          *)
(***************************************************************************)
EXTENDS Integers, Sequences, FiniteSets, TLC

\* ---------------------------------------------------------------- bounds

\* Frames the camera captures in a run (frame_counter is an int that only grows).
MaxFrames == 21

\* The frame checksums the model draws: 0..MaxChecksum.
MaxChecksum == 1

\* Calls of wav_player_play_file and wav_player_stop in a run.
MaxCalls == 3

\* ------------------------------------------------------ program constants

\* xQueueCreate(5, sizeof(ocr_result_t))
QUEUE_LENGTH == 5

\* if (frame_size > 2000)
FRAME_SIZE_THRESHOLD == 2000

VARIABLES
    \* main.c
    ocr_result_queue,   \* the FreeRTOS queue: a sequence of ocr_result_t
    camPc,              \* camera_task's position
    fb,                 \* the frame camera_task holds (NoFrame: none)
    frame_counter,      \* process_ocr_frame's static counter
    result,             \* camera_task's local ocr_result_t
    ocr_err,            \* camera_task's local ocr_err
    audPc,              \* audio_task's position
    cur,                \* audio_task's local ocr_result_t
    audio_err,          \* audio_task's local audio_err
    \* embedded_audio.c
    mainPc,             \* app_main's position
    bt_err,             \* app_main's bt_err, "none" before a2dp_sink_init returns
    tx_chan,            \* the I2S channel handle is not NULL
    ring_buffer,        \* the ring buffer handle is not NULL
    playback_task_handle, \* the handle of playback_task is not NULL
    i2s_writers,        \* the tasks whose i2s_channel_write has the channel
    frequency,          \* embedded_audio_play's locals
    pattern_length,
    i,
    caller,             \* who called embedded_audio_generate_tone
    toneFreq,           \* its arguments
    toneMs,
    audio_buffer,       \* its malloc'ed buffer is held
    \* history
    pushed,             \* xQueueSend calls made
    dropped,            \* of those, the ones that returned errQUEUE_FULL
    accepted,           \* the results xQueueSend accepted, in order
    received,           \* the results xQueueReceive delivered, in order
    handled,            \* results audio_task has finished with
    events,             \* tone requests and gaps made so far for the result in handling
    \* wav_player.c
    is_playing,
    rbPending,          \* ring_buffer: the bytes sent and not yet received, as runs
    rbHeld,             \* ring_buffer: the item received and not yet returned
    rbRead,             \* ring_buffer: offset of the read pointer in the storage
    suspended,          \* playback_task is suspended (vTaskSuspend)
    pbPc,               \* playback_task's position
    callPc,             \* the calling task's position in wav_player_play_file / _stop
    callOp,             \* the call it is in, or made last
    callFile,           \* wav_player_play_file's file
    total_read,         \* wav_player_play_file's local
    lastRet,            \* what the last call returned
    \* history
    calls,              \* calls of the player's API made so far
    playCount,          \* of those, the calls of wav_player_play_file
    streamPlay,         \* the play call that last started streaming (line 164)
    playInfo,           \* how the current play call started and what it lost
    out,                \* the bytes i2s_channel_write took from playback_task, as runs
    \* wav_player.c, the up-mix of one block (lines 176-185)
    mixPc,              \* where the up-mix is
    mixInput,           \* the 16-bit samples fread put into buffer
    buffer,             \* uint8_t buffer[WAV_BUFFER_SIZE], as 16-bit words
    bytes_read_mix,     \* bytes_read
    mixI,               \* the loop's i
    \* embedded_audio.c, one call of embedded_audio_generate_tone in detail
    genPc,              \* where the call is
    duration_ms,        \* its argument
    samples,            \* const int samples
    genI,               \* the synthesis loop's i
    raw,                \* (int16_t)(sin(...) * 16000) of the last loop turn
    left,               \* audio_buffer[i * 2] as last stored
    right,              \* audio_buffer[i * 2 + 1] as last stored
    write_size,         \* the size handed to i2s_channel_write
    writes,             \* calls of i2s_channel_write made
    genRet              \* the call's return value

camVars == <<camPc, fb, frame_counter, result, ocr_err>>
audVars == <<audPc, cur, audio_err, frequency, pattern_length, i, caller,
             toneFreq, toneMs, audio_buffer, handled, events>>
histVars == <<pushed, dropped, accepted, received>>
pipeVars == <<ocr_result_queue, camVars, audVars, histVars>>
rbVars == <<rbPending, rbHeld, rbRead>>
callVars == <<callPc, callOp, callFile, total_read, lastRet, calls, playCount>>
wavVars == <<is_playing, rbVars, suspended, pbPc, callVars, streamPlay, playInfo, out>>

mixVars == <<mixPc, mixInput, buffer, bytes_read_mix, mixI>>

genVars == <<genPc, duration_ms, samples, genI, raw, left, right, write_size, writes, genRet>>

bootVars == <<mainPc, bt_err, tx_chan, ring_buffer, playback_task_handle>>

vars == <<bootVars, i2s_writers, pipeVars, wavVars, mixVars, genVars>>

\* ------------------------------------------------------------ ocr_processor.c

NoFrame == [len |-> 0, sum |-> 0, held |-> FALSE]

\* What esp_camera_fb_get can hand back: a JPEG below or above the size
\* threshold, with the checksum of its first 500 bytes.
Frames ==
    { [len |-> l, sum |-> s, held |-> TRUE] :
        l \in {FRAME_SIZE_THRESHOLD, FRAME_SIZE_THRESHOLD + 1}, s \in 0..MaxChecksum }

EmptyResult == [text |-> "", language |-> ""]

DetectedText(pattern_indicator) ==
    IF pattern_indicator < 2 THEN "SpO2"
    ELSE IF pattern_indicator < 4 THEN "PULSE"
    ELSE IF pattern_indicator < 6 THEN "OXIMETER"
    ELSE IF pattern_indicator < 8 THEN "BPM"
    ELSE IF pattern_indicator < 10 THEN "FINGER TIP"
    ELSE "PULSE OXIMETER"

\* process_ocr_frame's result for the frame, fc being frame_counter after its
\* increment: memset 0, and every third frame a detection if the frame is big.
process_ocr_frame(frame, fc) ==
    IF fc % 3 = 0 /\ frame.len > FRAME_SIZE_THRESHOLD
    THEN [text |-> DetectedText((frame.sum + fc) % 12), language |-> "english"]
    ELSE EmptyResult

\* ------------------------------------------------------------------ main.c

\* Mutant: a full queue overwrites its oldest entry.
xQueueSend_DropOldest(q, item) ==
    IF Len(q) < QUEUE_LENGTH THEN Append(q, item) ELSE Append(Tail(q), item)

\* xQueueSend(ocr_result_queue, &result, 0): the queue after the call.
xQueueSend(q, item) ==
    IF Len(q) < QUEUE_LENGTH THEN Append(q, item) ELSE q

\* Its return value is pdTRUE.
xQueueSendOk(q) == Len(q) < QUEUE_LENGTH

\* Mutant: the newest entry is handed out.
xQueueReceiveItem_Newest(q) == q[Len(q)]

\* Mutant: the entry is read but stays queued.
xQueueReceiveRest_Peek(q) == q

\* xQueueReceive(ocr_result_queue, &result, portMAX_DELAY): item and queue after.
xQueueReceiveItem(q) == Head(q)

xQueueReceiveRest(q) == Tail(q)

\* lines 102-109: esp_camera_init; on failure the task deletes itself.
CameraInit ==
    /\ camPc = "init"
    /\ \E err \in {"ESP_OK", "ESP_FAIL"} :
          camPc' = IF err # "ESP_OK" THEN "deleted" ELSE "fb_get"
    /\ UNCHANGED <<fb, frame_counter, result, ocr_err>>
    /\ UNCHANGED <<ocr_result_queue, bootVars, i2s_writers, audVars, histVars, wavVars, mixVars, genVars>>

\* Mutant: the result is sent whatever its text.
CameraFrame_NoTextTest ==
    /\ camPc = "fb_get"
    /\ frame_counter < MaxFrames
    /\ \E frame \in Frames \cup {NoFrame} :
          /\ fb' = frame
          /\ IF ~frame.held
             THEN /\ camPc' = "fb_get"
                  /\ UNCHANGED <<frame_counter, result, ocr_err>>
             ELSE /\ frame_counter' = frame_counter + 1
                  /\ result' = process_ocr_frame(frame, frame_counter')
                  /\ ocr_err' = "ESP_OK"
                  /\ camPc' = IF ocr_err' = "ESP_OK" THEN "send" ELSE "fb_return"
    /\ UNCHANGED <<ocr_result_queue, bootVars, i2s_writers, audVars, histVars, wavVars, mixVars, genVars>>

\* lines 113-124: esp_camera_fb_get gives NULL (delay 1 s, continue) or a
\* frame, which process_ocr_frame turns into result; then the test on it.
CameraFrame ==
    /\ camPc = "fb_get"
    /\ frame_counter < MaxFrames
    /\ \E frame \in Frames \cup {NoFrame} :
          /\ fb' = frame
          /\ IF ~frame.held
             THEN /\ camPc' = "fb_get"
                  /\ UNCHANGED <<frame_counter, result, ocr_err>>
             ELSE /\ frame_counter' = frame_counter + 1
                  /\ result' = process_ocr_frame(frame, frame_counter')
                  /\ ocr_err' = "ESP_OK"
                  /\ camPc' = IF ocr_err' = "ESP_OK" /\ result'.text # ""
                              THEN "send" ELSE "fb_return"
    /\ UNCHANGED <<ocr_result_queue, bootVars, i2s_writers, audVars, histVars, wavVars, mixVars, genVars>>

\* Mutant: xQueueSend waits for room (portMAX_DELAY instead of 0).
CameraSend_Blocking ==
    /\ camPc = "send"
    /\ Len(ocr_result_queue) < QUEUE_LENGTH
    /\ ocr_result_queue' = Append(ocr_result_queue, result)
    /\ pushed' = pushed + 1
    /\ accepted' = Append(accepted, result)
    /\ dropped' = dropped
    /\ camPc' = "fb_return"
    /\ UNCHANGED <<fb, frame_counter, result, ocr_err>>
    /\ UNCHANGED <<bootVars, i2s_writers, audVars, received, wavVars, mixVars, genVars>>

\* lines 128-130: xQueueSend with no wait; a full queue drops the result.
CameraSend ==
    /\ camPc = "send"
    /\ ocr_result_queue' = xQueueSend(ocr_result_queue, result)
    /\ pushed' = pushed + 1
    /\ IF xQueueSendOk(ocr_result_queue)
       THEN accepted' = Append(accepted, result) /\ dropped' = dropped
       ELSE accepted' = accepted /\ dropped' = dropped + 1
    /\ camPc' = "fb_return"
    /\ UNCHANGED <<fb, frame_counter, result, ocr_err>>
    /\ UNCHANGED <<bootVars, i2s_writers, audVars, received, wavVars, mixVars, genVars>>

\* lines 133-135: esp_camera_fb_return, delay 500 ms, next iteration; the
\* iteration's locals (result, ocr_err) end with it.
CameraReturn ==
    /\ camPc = "fb_return"
    /\ fb' = NoFrame
    /\ result' = EmptyResult
    /\ ocr_err' = "ESP_OK"
    /\ camPc' = "fb_get"
    /\ UNCHANGED frame_counter
    /\ UNCHANGED <<ocr_result_queue, bootVars, i2s_writers, audVars, histVars, wavVars, mixVars, genVars>>

camera_task == CameraInit \/ CameraFrame \/ CameraSend \/ CameraReturn

\* ---------------------------------------------------------- embedded_audio.c

\* Return values of i2s_channel_write.
I2S_WRITE_RESULTS == {"ESP_OK", "ESP_FAIL"}

\* Mutant: the else branch is missing, the initial values (800, 2) stay.
TonePattern_NoDefault(language) ==
    IF language = "hindi" THEN [frequency |-> 600, pattern_length |-> 3]
    ELSE IF language = "gujarati" THEN [frequency |-> 1000, pattern_length |-> 2]
    ELSE [frequency |-> 800, pattern_length |-> 2]

\* lines 30-42: base frequency and number of beeps for a language tag.
TonePattern(language) ==
    IF language = "hindi" THEN [frequency |-> 600, pattern_length |-> 3]
    ELSE IF language = "gujarati" THEN [frequency |-> 1000, pattern_length |-> 2]
    ELSE [frequency |-> 800, pattern_length |-> 1]

\* line 46: the frequency of beep k.
BeepFrequency(base, k) == base + (k * 100)

\* line 46: the duration of a pattern beep, ms.
BeepMs == 200

\* Mutant: a pause follows every beep, the last one too.
PauseFollows_Always(k, len) == k < len

\* line 47: a pause follows beep k.
PauseFollows(k, len) == k < len - 1

\* line 48: the pause, ms.
PauseMs == 100

\* line 52: embedded_audio_play's return value.
embedded_audio_play_result == "ESP_OK"

ToneEvent(ret) ==
    [kind |-> "tone", by |-> caller, freq |-> toneFreq, ms |-> toneMs, ret |-> ret]

PauseEvent == [kind |-> "pause", by |-> "play", freq |-> 0, ms |-> PauseMs, ret |-> "ESP_OK"]

\* embedded_audio_generate_tone returns ret to its caller. In the loop of
\* embedded_audio_play (lines 45-52) ret is dropped, the 100 ms pause is taken
\* when one follows, then i++ and the loop test. embedded_audio_beep hands ret
\* to audio_task, which drops it (main.c line 152).
ToneReturns(ret) ==
    /\ IF caller = "play"
       THEN /\ events' = IF PauseFollows(i, pattern_length)
                         THEN events \o <<ToneEvent(ret), PauseEvent>>
                         ELSE Append(events, ToneEvent(ret))
            /\ i' = i + 1
            /\ IF i' < pattern_length
               THEN /\ audPc' = "tone"
                    /\ toneFreq' = BeepFrequency(frequency, i')
                    /\ toneMs' = BeepMs
                    /\ UNCHANGED <<audio_err, handled>>
               ELSE /\ audPc' = "check"
                    /\ audio_err' = embedded_audio_play_result
                    /\ UNCHANGED <<toneFreq, toneMs, handled>>
       ELSE /\ events' = <<>>
            /\ audPc' = "receive"
            /\ handled' = handled + 1
            /\ UNCHANGED <<i, toneFreq, toneMs, audio_err>>
    /\ UNCHANGED <<cur, frequency, pattern_length, caller>>

\* lines 26-46: embedded_audio_play up to its first call of generate_tone.
EmbeddedAudioPlay ==
    /\ audPc = "play"
    /\ caller' = "play"
    /\ frequency' = TonePattern(cur.language).frequency
    /\ pattern_length' = TonePattern(cur.language).pattern_length
    /\ i' = 0
    /\ IF i' < pattern_length'
       THEN /\ audPc' = "tone"
            /\ toneFreq' = BeepFrequency(frequency', i')
            /\ toneMs' = BeepMs
            /\ UNCHANGED audio_err
       ELSE /\ audPc' = "check"
            /\ audio_err' = embedded_audio_play_result
            /\ UNCHANGED <<toneFreq, toneMs>>
    /\ UNCHANGED <<cur, audio_buffer, handled, events>>
    /\ UNCHANGED <<ocr_result_queue, bootVars, i2s_writers, camVars, histVars, wavVars, mixVars, genVars>>

\* Mutant: a failed malloc ends the whole pattern of embedded_audio_play.
GenerateToneEntry_AbortsPattern ==
    /\ audPc = "tone"
    /\ IF ~tx_chan
       THEN ToneReturns("ESP_ERR_INVALID_STATE") /\ UNCHANGED audio_buffer
       ELSE \E malloc_ok \in BOOLEAN :
                IF malloc_ok
                THEN /\ audio_buffer' = TRUE
                     /\ audPc' = "write"
                     /\ UNCHANGED <<cur, audio_err, frequency, pattern_length, i,
                                    caller, toneFreq, toneMs, handled, events>>
                ELSE /\ events' = Append(events, ToneEvent("ESP_ERR_NO_MEM"))
                     /\ audPc' = "check"
                     /\ audio_err' = "ESP_ERR_NO_MEM"
                     /\ UNCHANGED <<cur, frequency, pattern_length, i, caller, toneFreq,
                                    toneMs, handled, audio_buffer>>
    /\ UNCHANGED <<ocr_result_queue, bootVars, i2s_writers, camVars, histVars, wavVars, mixVars, genVars>>

\* lines 60-89: the tx_chan test, malloc and the synthesis of the samples.
GenerateToneEntry ==
    /\ audPc = "tone"
    /\ IF ~tx_chan
       THEN ToneReturns("ESP_ERR_INVALID_STATE") /\ UNCHANGED audio_buffer
       ELSE \E malloc_ok \in BOOLEAN :
                IF malloc_ok
                THEN /\ audio_buffer' = TRUE
                     /\ audPc' = "write"
                     /\ UNCHANGED <<cur, audio_err, frequency, pattern_length, i,
                                    caller, toneFreq, toneMs, handled, events>>
                ELSE ToneReturns("ESP_ERR_NO_MEM") /\ UNCHANGED audio_buffer
    /\ UNCHANGED <<ocr_result_queue, bootVars, i2s_writers, camVars, histVars, wavVars, mixVars, genVars>>

\* Mutant: the driver does not make a write wait for the write under way.
I2sFree_NoLock(writers) == TRUE

\* i2s_channel_write is thread safe: the driver lets one write at a time have
\* the channel, from the start of the call's transfer to its return.
I2sFree(writers) == writers = {}

\* lines 93-95: i2s_channel_write is called with portMAX_DELAY and waits for
\* the channel.
GenerateToneTake ==
    /\ audPc = "write"
    /\ "audio_task" \notin i2s_writers
    /\ I2sFree(i2s_writers)
    /\ i2s_writers' = i2s_writers \cup {"audio_task"}
    /\ UNCHANGED <<ocr_result_queue, bootVars, camVars, audVars, histVars, wavVars, mixVars, genVars>>

\* Mutant: the buffer is freed only after a write that succeeded.
GenerateToneWrite_FreeOnSuccess ==
    /\ audPc = "write"
    /\ "audio_task" \in i2s_writers
    /\ i2s_writers' = i2s_writers \ {"audio_task"}
    /\ \E ret \in I2S_WRITE_RESULTS :
          /\ audio_buffer' = (ret # "ESP_OK")
          /\ ToneReturns(ret)
    /\ UNCHANGED <<ocr_result_queue, bootVars, camVars, histVars, wavVars, mixVars, genVars>>

\* lines 93-107: i2s_channel_write returns (it may never), free, return ret.
GenerateToneWrite ==
    /\ audPc = "write"
    /\ "audio_task" \in i2s_writers
    /\ i2s_writers' = i2s_writers \ {"audio_task"}
    /\ audio_buffer' = FALSE
    /\ \E ret \in I2S_WRITE_RESULTS : ToneReturns(ret)
    /\ UNCHANGED <<ocr_result_queue, bootVars, camVars, histVars, wavVars, mixVars, genVars>>

\* ---- one call of embedded_audio_generate_tone, sample by sample

\* const int sample_rate = 44100 (line 66).
sample_rate == 44100

\* The amplitude of line 78.
Amplitude == 16000

\* C's integer division, which truncates toward zero.
CDiv(a, b) == IF a >= 0 THEN a \div b ELSE -((-a) \div b)

\* Mutant: the rate per millisecond is rounded first.
SampleCount_PerMs(ms) == CDiv(sample_rate, 1000) * ms

\* line 67.
SampleCount(ms) == CDiv(sample_rate * ms, 1000)

\* line 70: the bytes asked of malloc, and line 94: the bytes handed to
\* i2s_channel_write; sizeof(int16_t) is 2.
BufferBytes(n) == n * 2 * 2

\* Mutant: the fade-out grows toward the end.
Envelope_FadeOutRising(s, k, n) ==
    IF k < CDiv(n, 10) THEN CDiv(s * k, CDiv(n, 10))
    ELSE IF k > n - CDiv(n, 10) THEN CDiv(s * (k - (n - CDiv(n, 10))), CDiv(n, 10))
    ELSE s

\* lines 81-85: the sample after the fade-in / fade-out envelope.
Envelope(s, k, n) ==
    IF k < CDiv(n, 10) THEN CDiv(s * k, CDiv(n, 10))
    ELSE IF k > n - CDiv(n, 10) THEN CDiv(s * (n - k), CDiv(n, 10))
    ELSE s

\* Durations the tone is asked for: those of embedded_audio_play and
\* embedded_audio_beep (lines 46, 57) and short ones.
Durations == {0, 1, 2, 200, 300}

\* Values of (int16_t)(sin(2 pi f t) * 16000), line 78.
RawSamples == {-Amplitude, -7, 0, Amplitude}

\* No call is looked at in detail.
GenIdle ==
    /\ genPc = "idle"
    /\ duration_ms = 0
    /\ samples = 0
    /\ genI = 0
    /\ raw = 0
    /\ left = 0
    /\ right = 0
    /\ write_size = 0
    /\ writes = 0
    /\ genRet = "pending"

\* embedded_audio_generate_tone(frequency, ms) has been called.
GenCalled(ms) ==
    /\ genPc = "entry"
    /\ duration_ms = ms
    /\ samples = 0
    /\ genI = 0
    /\ raw = 0
    /\ left = 0
    /\ right = 0
    /\ write_size = 0
    /\ writes = 0
    /\ genRet = "pending"

\* lines 61-76: the tx_chan test, the number of samples, malloc.
GenAlloc ==
    /\ genPc = "entry"
    /\ IF ~tx_chan
       THEN /\ genPc' = "done"
            /\ genRet' = "ESP_ERR_INVALID_STATE"
            /\ UNCHANGED <<samples, audio_buffer, genI>>
       ELSE /\ samples' = SampleCount(duration_ms)
            /\ \E malloc_ok \in BOOLEAN :
                  IF malloc_ok
                  THEN /\ audio_buffer' = TRUE
                       /\ genI' = 0
                       /\ genPc' = "loop"
                       /\ UNCHANGED genRet
                  ELSE /\ genPc' = "done"
                       /\ genRet' = "ESP_ERR_NO_MEM"
                       /\ UNCHANGED <<audio_buffer, genI>>
    /\ UNCHANGED <<duration_ms, raw, left, right, write_size, writes>>
    /\ UNCHANGED <<ocr_result_queue, bootVars, i2s_writers, camVars, histVars, wavVars, mixVars>>
    /\ UNCHANGED <<audPc, cur, audio_err, frequency, pattern_length, i, caller,
                   toneFreq, toneMs, handled, events>>

\* lines 76-89: one turn of the synthesis loop.
GenSample ==
    /\ genPc = "loop"
    /\ genI < samples
    /\ \E s \in RawSamples :
          /\ raw' = s
          /\ left' = Envelope(s, genI, samples)
          /\ right' = Envelope(s, genI, samples)
    /\ genI' = genI + 1
    /\ UNCHANGED <<genPc, duration_ms, samples, write_size, writes, genRet>>
    /\ UNCHANGED <<bootVars, i2s_writers, pipeVars, wavVars, mixVars>>

\* lines 92-95: the loop has ended, i2s_channel_write is called.
GenWriteCall ==
    /\ genPc = "loop"
    /\ ~(genI < samples)
    /\ write_size' = BufferBytes(samples)
    /\ writes' = writes + 1
    /\ genPc' = "write"
    /\ UNCHANGED <<duration_ms, samples, genI, raw, left, right, genRet>>
    /\ UNCHANGED <<bootVars, i2s_writers, pipeVars, wavVars, mixVars>>

\* lines 95-107: the write returns, free, return ret.
GenWriteReturn ==
    /\ genPc = "write"
    /\ \E ret \in I2S_WRITE_RESULTS : genRet' = ret
    /\ audio_buffer' = FALSE
    /\ genPc' = "done"
    /\ UNCHANGED <<duration_ms, samples, genI, raw, left, right, write_size, writes>>
    /\ UNCHANGED <<ocr_result_queue, bootVars, i2s_writers, camVars, histVars, wavVars, mixVars>>
    /\ UNCHANGED <<audPc, cur, audio_err, frequency, pattern_length, i, caller,
                   toneFreq, toneMs, handled, events>>

embedded_audio_generate_tone == GenAlloc \/ GenSample \/ GenWriteCall \/ GenWriteReturn

\* ------------------------------------------------------- main.c, audio_task

\* line 144: xQueueReceive with portMAX_DELAY.
AudioReceive ==
    /\ audPc = "receive"
    /\ ocr_result_queue # <<>>
    /\ cur' = xQueueReceiveItem(ocr_result_queue)
    /\ ocr_result_queue' = xQueueReceiveRest(ocr_result_queue)
    /\ received' = Append(received, cur')
    /\ events' = <<>>
    /\ audPc' = "play"
    /\ UNCHANGED <<audio_err, frequency, pattern_length, i, caller, toneFreq,
                   toneMs, audio_buffer, handled>>
    /\ UNCHANGED <<bootVars, i2s_writers, camVars, pushed, dropped, accepted, wavVars, mixVars, genVars>>

\* lines 150-153: the fallback beep when embedded_audio_play failed.
AudioCheck ==
    /\ audPc = "check"
    /\ IF audio_err # "ESP_OK"
       THEN /\ caller' = "beep"            \* embedded_audio_beep, lines 55-58
            /\ toneFreq' = 800
            /\ toneMs' = 300
            /\ audPc' = "tone"
            /\ UNCHANGED handled
            /\ UNCHANGED events
       ELSE /\ audPc' = "receive"
            /\ handled' = handled + 1
            /\ events' = <<>>
            /\ UNCHANGED <<caller, toneFreq, toneMs>>
    /\ UNCHANGED <<cur, audio_err, frequency, pattern_length, i, audio_buffer>>
    /\ UNCHANGED <<ocr_result_queue, bootVars, i2s_writers, camVars, histVars, wavVars, mixVars, genVars>>

embedded_audio ==
    EmbeddedAudioPlay \/ GenerateToneEntry \/ GenerateToneTake \/ GenerateToneWrite

audio_task == AudioReceive \/ AudioCheck \/ embedded_audio

\* --------------------------------------------------------------- wav_player.c

\* #define WAV_BUFFER_SIZE 4096
WAV_BUFFER_SIZE == 4096

\* #define RING_BUFFER_SIZE (16 * 1024)
RING_BUFFER_SIZE == 16384

\* #define I2S_CHANNELS 2
I2S_CHANNELS == 2

\* A file on the card: what fopen and the fread of the header find, the header
\* fields wav_player_play_file uses, and the bytes that follow the header.
WavFile(name, riff, wave, data, channels, size, payload) ==
    [name |-> name, exists |-> TRUE, header |-> TRUE, riff |-> riff, wave |-> wave,
     data |-> data, num_channels |-> channels, data_size |-> size, payload |-> payload]

NoFile ==
    [name |-> "none", exists |-> FALSE, header |-> FALSE, riff |-> "", wave |-> "",
     data |-> "", num_channels |-> 0, data_size |-> 0, payload |-> 0]

Files ==
    { WavFile("stereo", "RIFF", "WAVE", "data", 2, 6000, 6000),
      WavFile("long", "RIFF", "WAVE", "data", 2, 20000, 20000),
      WavFile("mono", "RIFF", "WAVE", "data", 1, 2000, 2000),
      WavFile("short", "RIFF", "WAVE", "data", 2, 6000, 5000),
      WavFile("bad_riff", "RIFX", "WAVE", "data", 2, 6000, 6000),
      WavFile("bad_wave", "RIFF", "WAVX", "data", 2, 6000, 6000),
      WavFile("bad_data", "RIFF", "WAVE", "LIST", 2, 6000, 6000),
      [NoFile EXCEPT !.name = "truncated", !.exists = TRUE],
      [NoFile EXCEPT !.name = "missing"] }

\* Mutant: the data tag is not compared.
ValidHeader_NoDataTag(f) == ~(f.riff # "RIFF" \/ f.wave # "WAVE")

\* lines 144-146: the three strncmp of the header's tags.
ValidHeader(f) == ~(f.riff # "RIFF" \/ f.wave # "WAVE" \/ f.data # "data")

\* line 177: the block is up-mixed.
UpMix(f) == f.num_channels = 1 /\ I2S_CHANNELS = 2

\* Mutant: the loop ends when less than a whole block is left.
StreamMore_WholeBlocks(read, size) == read + WAV_BUFFER_SIZE <= size

\* line 166: the streaming loop goes on.
StreamMore(read, size) == read < size

\* lines 167-168.
ToRead(read, size) ==
    IF size - read > WAV_BUFFER_SIZE THEN WAV_BUFFER_SIZE ELSE size - read

\* line 170: fread gives what is asked for, or what is left of the file.
BytesRead(f, read) ==
    IF f.payload - read < ToRead(read, f.data_size)
    THEN (IF f.payload > read THEN f.payload - read ELSE 0)
    ELSE ToRead(read, f.data_size)

\* A run of len bytes of what play call `play` offers, starting at byte lo of
\* the stream it offers (the payload, or the up-mixed payload of a mono file).
Run(play, lo, len) == [play |-> play, lo |-> lo, len |-> len]

\* lines 176-188: the block handed to xRingbufferSend after bytes_read source
\* bytes were read at offset read: bytes_read bytes, or twice that up-mixed.
Block(play, f, read, bytes_read) ==
    IF UpMix(f) THEN Run(play, 2 * read, 2 * bytes_read)
    ELSE Run(play, read, bytes_read)

\* line 192: the source bytes counted for a block of sent bytes.
Consumed(f, sent) == sent \div (IF UpMix(f) THEN 2 ELSE 1)

RECURSIVE Total(_)
Total(runs) == IF runs = <<>> THEN 0 ELSE Head(runs).len + Total(Tail(runs))

\* runs followed by r, as one run where r continues the last one.
AppendRun(runs, r) ==
    IF /\ runs # <<>>
       /\ [runs[Len(runs)] EXCEPT !.lo = 0, !.len = 0] = [r EXCEPT !.lo = 0, !.len = 0]
       /\ runs[Len(runs)].lo + runs[Len(runs)].len = r.lo
    THEN [runs EXCEPT ![Len(runs)].len = @ + r.len]
    ELSE Append(runs, r)

RECURSIVE AppendRuns(_, _)
AppendRuns(runs, more) ==
    IF more = <<>> THEN runs ELSE AppendRuns(AppendRun(runs, Head(more)), Tail(more))

\* The first n bytes of runs, and what follows them.
RECURSIVE TakeBytes(_, _)
TakeBytes(runs, n) ==
    IF n = 0 \/ runs = <<>> THEN <<>>
    ELSE IF Head(runs).len <= n
         THEN <<Head(runs)>> \o TakeBytes(Tail(runs), n - Head(runs).len)
         ELSE <<[Head(runs) EXCEPT !.len = n]>>

RECURSIVE DropBytes(_, _)
DropBytes(runs, n) ==
    IF n = 0 \/ runs = <<>> THEN runs
    ELSE IF Head(runs).len <= n
         THEN DropBytes(Tail(runs), n - Head(runs).len)
         ELSE <<[Head(runs) EXCEPT !.lo = @ + n, !.len = @ - n]>> \o Tail(runs)

\* The ring buffer is an ESP-IDF byte buffer (RINGBUF_TYPE_BYTEBUF, line 61).
\* Its free space is what neither waits to be received nor is held by a
\* receiver; xRingbufferSend copies the block whole or, after its wait, fails.
RbFree == RING_BUFFER_SIZE - (Total(rbPending) + Total(rbHeld))

xRingbufferSendFits(r) == r.len <= RbFree

xRingbufferSend(pending, r) == AppendRun(pending, r)

\* xRingbufferReceive finds data: a byte buffer hands out nothing while an
\* earlier item has not been returned.
RbAvailable == rbHeld = <<>> /\ rbPending # <<>>

\* It hands out the bytes up to the write pointer or to the end of the storage.
RbItemSize ==
    IF Total(rbPending) < RING_BUFFER_SIZE - rbRead
    THEN Total(rbPending) ELSE RING_BUFFER_SIZE - rbRead

RbItem == TakeBytes(rbPending, RbItemSize)

RbAfterReceive == DropBytes(rbPending, RbItemSize)

RbReadAfter == (rbRead + RbItemSize) % RING_BUFFER_SIZE

\* ---- the up-mix of one block, lines 176-185

\* uint8_t buffer[WAV_BUFFER_SIZE] seen through (uint16_t*): its 16-bit words.
BufferWords == WAV_BUFFER_SIZE \div 2

\* Lengths fread gives for a block (line 170, at least 1 and at most to_read,
\* which is at most WAV_BUFFER_SIZE), with or without half a sample at the
\* end, and two contents of the file.
MixReads == {1, 2, 3, 4, 6, 2046, 2047, 2048, 2049, 2050, 4095, 4096}

MixSeeds == {1, 40000}

Sample(seed, k) == (seed + k) % 65536

\* The block is in buffer (line 170) and the loop of line 179 starts at
\* i = bytes_read/2 - 1. The words fread did not fill are never read before
\* they are written.
UpMixStart(seed, n) ==
    /\ mixPc = "loop"
    /\ mixInput = [k \in 0..(n \div 2 - 1) |-> Sample(seed, k)]
    /\ buffer = [w \in 0..(BufferWords - 1) |-> IF w < n \div 2 THEN Sample(seed, w) ELSE 0]
    /\ bytes_read_mix = n
    /\ mixI = n \div 2 - 1

\* lines 179-183: one turn of the loop. A store at a word past the end of
\* buffer is undefined behaviour: nothing is known of what follows.
UpMixStep ==
    /\ mixPc = "loop"
    /\ mixI >= 0
    /\ IF mixI * 2 + 1 < BufferWords
       THEN /\ buffer' = [buffer EXCEPT ![mixI * 2] = buffer[mixI],
                                         ![mixI * 2 + 1] = buffer[mixI]]
            /\ mixI' = mixI - 1
            /\ UNCHANGED mixPc
       ELSE /\ mixPc' = "undefined"
            /\ UNCHANGED <<buffer, mixI>>
    /\ UNCHANGED <<mixInput, bytes_read_mix>>
    /\ UNCHANGED <<bootVars, i2s_writers, pipeVars, wavVars, genVars>>

\* line 184: the loop has ended, bytes_read *= 2.
UpMixDone ==
    /\ mixPc = "loop"
    /\ mixI < 0
    /\ bytes_read_mix' = bytes_read_mix * 2
    /\ mixPc' = "done"
    /\ UNCHANGED <<mixInput, buffer, mixI>>
    /\ UNCHANGED <<bootVars, i2s_writers, pipeVars, wavVars, genVars>>

\* No up-mix is under way.
MixIdle ==
    /\ mixPc = "idle"
    /\ mixInput = <<>>
    /\ buffer = <<>>
    /\ bytes_read_mix = 0
    /\ mixI = 0

\* ---- the task calling the player

\* What is recorded of a play call: how it found the player, whether a block
\* was lost or a write failed, the bytes and blocks it handed to
\* xRingbufferSend, the longest of these blocks, and the bytes the ring buffer
\* refused.
NoPlay ==
    [idle |-> TRUE, empty |-> TRUE, dropped |-> FALSE, write_failed |-> FALSE,
     offered |-> 0, blocks |-> 0, largest |-> 0, lost |-> 0]

\* wav_player_stop, lines 205-211, entered from `from`: nothing to do when not
\* playing, else the flag is cleared and the drain loop follows.
StopEntry(from) ==
    IF ~is_playing
    THEN /\ callPc' = from
         /\ UNCHANGED is_playing
    ELSE /\ is_playing' = FALSE
         /\ callPc' = "stop_drain"

\* wav_player_stop() is called.
CallStop ==
    /\ callPc = "idle"
    /\ calls < MaxCalls
    /\ calls' = calls + 1
    /\ callOp' = "stop"
    /\ callFile' = NoFile
    /\ StopEntry("idle")
    /\ lastRet' = IF is_playing THEN "pending" ELSE "ESP_OK"
    /\ UNCHANGED <<total_read, playCount, rbVars, suspended, pbPc, streamPlay, playInfo, out>>
    /\ UNCHANGED <<bootVars, i2s_writers, pipeVars, mixVars, genVars>>

\* wav_player_play_file(f) is called: lines 120-124.
CallPlay ==
    /\ callPc = "idle"
    /\ calls < MaxCalls
    /\ calls' = calls + 1
    /\ callOp' = "play"
    /\ \E f \in Files : callFile' = f
    /\ playCount' = playCount + 1
    /\ playInfo' = [idle |-> ~is_playing,
                    empty |-> rbPending = <<>> /\ rbHeld = <<>>,
                    dropped |-> FALSE, write_failed |-> FALSE,
                    offered |-> 0, blocks |-> 0, largest |-> 0, lost |-> 0]
    /\ StopEntry("open")
    /\ lastRet' = "pending"
    /\ UNCHANGED <<total_read, rbVars, suspended, pbPc, streamPlay, out>>
    /\ UNCHANGED <<bootVars, i2s_writers, pipeVars, mixVars, genVars>>

\* lines 216-218: one turn of the drain loop, xRingbufferReceive with no wait
\* and vRingbufferReturnItem, or the NULL that ends the loop.
StopDrain ==
    /\ callPc = "stop_drain"
    /\ IF RbAvailable
       THEN /\ rbPending' = RbAfterReceive
            /\ rbRead' = RbReadAfter
            /\ UNCHANGED <<rbHeld, callPc>>
       ELSE /\ callPc' = "stop_suspend"
            /\ UNCHANGED rbVars
    /\ UNCHANGED <<is_playing, suspended, pbPc, callOp, callFile, total_read, lastRet,
                   calls, playCount, streamPlay, playInfo, out>>
    /\ UNCHANGED <<bootVars, i2s_writers, pipeVars, mixVars, genVars>>

\* Mutant: wav_player_stop returns without suspending playback_task.
StopSuspend_NoSuspend ==
    /\ callPc = "stop_suspend"
    /\ IF callOp = "play"
       THEN callPc' = "open" /\ UNCHANGED lastRet
       ELSE callPc' = "idle" /\ lastRet' = "ESP_OK"
    /\ UNCHANGED <<is_playing, rbVars, suspended, pbPc, callOp, callFile, total_read, calls,
                   playCount, streamPlay, playInfo, out>>
    /\ UNCHANGED <<bootVars, i2s_writers, pipeVars, mixVars, genVars>>

\* lines 221-223: vTaskSuspend(playback_task_handle), return ESP_OK.
StopSuspend ==
    /\ callPc = "stop_suspend"
    /\ suspended' = TRUE
    /\ IF callOp = "play"
       THEN callPc' = "open" /\ UNCHANGED lastRet
       ELSE callPc' = "idle" /\ lastRet' = "ESP_OK"
    /\ UNCHANGED <<is_playing, rbVars, pbPc, callOp, callFile, total_read, calls,
                   playCount, streamPlay, playInfo, out>>
    /\ UNCHANGED <<bootVars, i2s_writers, pipeVars, mixVars, genVars>>

\* lines 128-164: fopen, the header and its tags, then is_playing = true.
PlayOpen ==
    /\ callPc = "open"
    /\ IF ~callFile.exists
       THEN /\ lastRet' = "ESP_ERR_NOT_FOUND"
            /\ callPc' = "idle"
            /\ UNCHANGED <<is_playing, total_read, streamPlay>>
       ELSE IF ~callFile.header \/ ~ValidHeader(callFile)
       THEN /\ lastRet' = "ESP_ERR_INVALID_ARG"
            /\ callPc' = "idle"
            /\ UNCHANGED <<is_playing, total_read, streamPlay>>
       ELSE /\ total_read' = 0
            /\ is_playing' = TRUE
            /\ streamPlay' = playCount
            /\ callPc' = "stream"
            /\ UNCHANGED lastRet
    /\ UNCHANGED <<rbVars, suspended, pbPc, callOp, callFile, calls, playCount, playInfo, out>>
    /\ UNCHANGED <<bootVars, i2s_writers, pipeVars, mixVars, genVars>>

\* lines 176-188: the up-mix of bytes_read bytes leaves 2 * bytes_read bytes in
\* buffer, which has WAV_BUFFER_SIZE of them (line 161): past that the stores
\* of lines 181-182, or the bytes xRingbufferSend copies, are outside the array.
MixOverflows(f, bytes_read) == UpMix(f) /\ 2 * bytes_read > WAV_BUFFER_SIZE

\* Such an up-mix is undefined behaviour. Either what lies behind buffer on the
\* stack is not missed and the loop goes on as written, or nothing is known of
\* what follows.
Survives(f, bytes_read) == IF MixOverflows(f, bytes_read) THEN BOOLEAN ELSE {TRUE}

Max(a, b) == IF a >= b THEN a ELSE b

\* Mutant: a block the ring buffer refused is offered again.
PlayBlock_Retries ==
    /\ callPc = "stream"
    /\ \E survives \in Survives(callFile, BytesRead(callFile, total_read)) :
       LET bytes_read == BytesRead(callFile, total_read)
           block == Block(playCount, callFile, total_read, bytes_read)
       IN  IF ~StreamMore(total_read, callFile.data_size) \/ bytes_read = 0
           THEN /\ callPc' = "resume"
                /\ UNCHANGED <<rbPending, total_read, playInfo>>
           ELSE IF ~ring_buffer \/ (MixOverflows(callFile, bytes_read) /\ ~survives)
           THEN /\ callPc' = "undefined"
                /\ UNCHANGED <<rbPending, total_read, playInfo>>
           ELSE /\ IF xRingbufferSendFits(block)
                   THEN /\ rbPending' = xRingbufferSend(rbPending, block)
                        /\ playInfo' = [playInfo EXCEPT !.offered = @ + block.len,
                                                         !.blocks = @ + 1,
                                                         !.largest = Max(@, block.len)]
                        /\ total_read' = total_read + Consumed(callFile, block.len)
                   ELSE /\ playInfo' = [playInfo EXCEPT !.dropped = TRUE,
                                                         !.offered = @ + block.len,
                                                         !.blocks = @ + 1,
                                                         !.largest = Max(@, block.len),
                                                         !.lost = @ + block.len]
                        /\ UNCHANGED <<rbPending, total_read>>
                /\ UNCHANGED callPc
    /\ UNCHANGED <<is_playing, rbHeld, rbRead, suspended, pbPc, callOp, callFile, lastRet,
                   calls, playCount, streamPlay, out>>
    /\ UNCHANGED <<bootVars, i2s_writers, pipeVars, mixVars, genVars>>

\* lines 166-193: one turn of the streaming loop. A block that does not fit
\* when xRingbufferSend gives up its 100 ms wait is lost. xRingbufferSend on
\* the NULL handle of a ring buffer never created is undefined behaviour:
\* nothing is known of what follows.
PlayBlock ==
    /\ callPc = "stream"
    /\ \E survives \in Survives(callFile, BytesRead(callFile, total_read)) :
       LET bytes_read == BytesRead(callFile, total_read)
           block == Block(playCount, callFile, total_read, bytes_read)
       IN  IF ~StreamMore(total_read, callFile.data_size) \/ bytes_read = 0
           THEN /\ callPc' = "resume"
                /\ UNCHANGED <<rbPending, total_read, playInfo>>
           ELSE IF ~ring_buffer \/ (MixOverflows(callFile, bytes_read) /\ ~survives)
           THEN /\ callPc' = "undefined"
                /\ UNCHANGED <<rbPending, total_read, playInfo>>
           ELSE /\ IF xRingbufferSendFits(block)
                   THEN /\ rbPending' = xRingbufferSend(rbPending, block)
                        /\ playInfo' = [playInfo EXCEPT !.offered = @ + block.len,
                                                         !.blocks = @ + 1,
                                                         !.largest = Max(@, block.len)]
                   ELSE /\ playInfo' = [playInfo EXCEPT !.dropped = TRUE,
                                                         !.offered = @ + block.len,
                                                         !.blocks = @ + 1,
                                                         !.largest = Max(@, block.len),
                                                         !.lost = @ + block.len]
                        /\ UNCHANGED rbPending
                /\ total_read' = total_read + Consumed(callFile, block.len)
                /\ UNCHANGED callPc
    /\ UNCHANGED <<is_playing, rbHeld, rbRead, suspended, pbPc, callOp, callFile, lastRet,
                   calls, playCount, streamPlay, out>>
    /\ UNCHANGED <<bootVars, i2s_writers, pipeVars, mixVars, genVars>>

\* lines 195-201: fclose, vTaskResume(playback_task_handle), return ESP_OK.
PlayResume ==
    /\ callPc = "resume"
    /\ suspended' = FALSE
    /\ lastRet' = "ESP_OK"
    /\ callPc' = "idle"
    /\ UNCHANGED <<is_playing, rbVars, pbPc, callOp, callFile, total_read, calls,
                   playCount, streamPlay, playInfo, out>>
    /\ UNCHANGED <<bootVars, i2s_writers, pipeVars, mixVars, genVars>>

wav_player_stop == StopDrain \/ StopSuspend

wav_player_play_file == PlayOpen \/ PlayBlock \/ PlayResume

\* ---- playback_task

\* line 38: xRingbufferReceive with portMAX_DELAY returns an item once there is
\* one; it never returns NULL.
PlaybackReceive ==
    /\ pbPc = "receive"
    /\ ~suspended
    /\ RbAvailable
    /\ rbHeld' = RbItem
    /\ rbPending' = RbAfterReceive
    /\ rbRead' = RbReadAfter
    /\ pbPc' = "write"
    /\ UNCHANGED <<is_playing, suspended, callVars, streamPlay, playInfo, out>>
    /\ UNCHANGED <<bootVars, i2s_writers, pipeVars, mixVars, genVars>>

\* What the output has taken once the item's write has succeeded.
Written(runs, item, during) ==
    AppendRuns(runs, [k \in 1..Len(item) |->
                        [play |-> item[k].play, lo |-> item[k].lo, len |-> item[k].len,
                         during |-> during]])

\* line 42: i2s_channel_write is called with portMAX_DELAY and waits for the
\* channel.
PlaybackTake ==
    /\ pbPc = "write"
    /\ ~suspended
    /\ "playback_task" \notin i2s_writers
    /\ I2sFree(i2s_writers)
    /\ i2s_writers' = i2s_writers \cup {"playback_task"}
    /\ UNCHANGED <<bootVars, pipeVars, wavVars, mixVars, genVars>>

\* Mutant: an item whose write failed is written again.
PlaybackWrite_Retries ==
    /\ pbPc = "write"
    /\ ~suspended
    /\ "playback_task" \in i2s_writers
    /\ i2s_writers' = i2s_writers \ {"playback_task"}
    /\ \E ret \in I2S_WRITE_RESULTS :
          IF ret = "ESP_OK"
          THEN /\ out' = Written(out, rbHeld, streamPlay)
               /\ pbPc' = "return"
               /\ UNCHANGED playInfo
          ELSE /\ playInfo' = [playInfo EXCEPT !.write_failed = TRUE]
               /\ UNCHANGED <<out, pbPc>>
    /\ UNCHANGED <<is_playing, rbVars, suspended, callVars, streamPlay>>
    /\ UNCHANGED <<bootVars, pipeVars, mixVars, genVars>>

\* lines 42-45: i2s_channel_write returns (it may never): the item has been
\* taken by the output, or the error is logged.
PlaybackWrite ==
    /\ pbPc = "write"
    /\ ~suspended
    /\ "playback_task" \in i2s_writers
    /\ i2s_writers' = i2s_writers \ {"playback_task"}
    /\ \E ret \in I2S_WRITE_RESULTS :
          IF ret = "ESP_OK"
          THEN /\ out' = Written(out, rbHeld, streamPlay)
               /\ UNCHANGED playInfo
          ELSE /\ playInfo' = [playInfo EXCEPT !.write_failed = TRUE]
               /\ UNCHANGED out
    /\ pbPc' = "return"
    /\ UNCHANGED <<is_playing, rbVars, suspended, callVars, streamPlay>>
    /\ UNCHANGED <<bootVars, pipeVars, mixVars, genVars>>

\* line 48: vRingbufferReturnItem.
PlaybackReturn ==
    /\ pbPc = "return"
    /\ ~suspended
    /\ rbHeld' = <<>>
    /\ pbPc' = "receive"
    /\ UNCHANGED <<is_playing, rbPending, rbRead, suspended, callVars, streamPlay,
                   playInfo, out>>
    /\ UNCHANGED <<bootVars, i2s_writers, pipeVars, mixVars, genVars>>

playback_task == PlaybackReceive \/ PlaybackTake \/ PlaybackWrite \/ PlaybackReturn

\* wav_player_init has returned ESP_OK (lines 57-118): the ring buffer is
\* empty, playback_task waits in xRingbufferReceive and is suspended.
WavInit ==
    /\ is_playing = FALSE
    /\ rbPending = <<>>
    /\ rbHeld = <<>>
    /\ rbRead = 0
    /\ suspended = TRUE
    /\ pbPc = "receive"
    /\ callPc = "idle"
    /\ callOp = "none"
    /\ callFile = NoFile
    /\ total_read = 0
    /\ lastRet = "ESP_OK"
    /\ calls = 0
    /\ playCount = 0
    /\ streamPlay = 0
    /\ playInfo = NoPlay
    /\ out = <<>>

\* ------------------------------------------------------------ main.c, app_main

\* lines 208-227: the SD card (its failure is only logged) and xQueueCreate.
AppCreateQueue ==
    /\ mainPc = "start"
    /\ \E created \in BOOLEAN : mainPc' = IF created THEN "bluetooth" ELSE "returned"
    /\ UNCHANGED <<bt_err, tx_chan, ring_buffer, playback_task_handle>>
    /\ UNCHANGED <<i2s_writers, pipeVars, wavVars, mixVars, genVars>>

\* What a2dp_sink_init does (a2dp_sink.c 22-71): ESP_ERROR_CHECK aborts when
\* the NVS cannot be initialised, a failure of the controller or of Bluedroid
\* is returned, and in the end ESP_ERR_NOT_SUPPORTED is.
A2DP_SINK_INIT_RESULTS == {"abort", "ESP_FAIL", "ESP_ERR_NOT_SUPPORTED"}

\* Mutant: only ESP_OK lets the start-up go on.
AfterBluetooth_OkOnly(err) ==
    IF err # "ESP_OK" THEN "returned" ELSE "wav_player"

\* lines 231-245: where app_main goes with bt_err.
AfterBluetooth(err) ==
    IF err = "ESP_ERR_NOT_SUPPORTED" THEN "wav_player"
    ELSE IF err # "ESP_OK" THEN "returned"
    ELSE "wav_player"

\* lines 230-245: a2dp_sink_init and what app_main does with its result.
AppBluetooth ==
    /\ mainPc = "bluetooth"
    /\ \E ret \in A2DP_SINK_INIT_RESULTS :
          IF ret = "abort"
          THEN mainPc' = "aborted" /\ UNCHANGED bt_err
          ELSE bt_err' = ret /\ mainPc' = AfterBluetooth(ret)
    /\ UNCHANGED <<tx_chan, ring_buffer, playback_task_handle>>
    /\ UNCHANGED <<i2s_writers, pipeVars, wavVars, mixVars, genVars>>

\* What wav_player_init does (wav_player.c 57-118): no ring buffer, return
\* ESP_ERR_NO_MEM; i2s_new_channel fails, ESP_ERROR_CHECK aborts;
\* i2s_channel_init_std_mode or i2s_channel_enable fails, return its error;
\* else playback_task is created and suspended, return ESP_OK.
WAV_PLAYER_INIT_RESULTS == {"ESP_ERR_NO_MEM", "abort", "ESP_FAIL", "ESP_OK"}

\* Mutant: the result of wav_player_init is only logged.
AppWavPlayer_ResultIgnored ==
    /\ mainPc = "wav_player"
    /\ \E ret \in WAV_PLAYER_INIT_RESULTS :
          /\ ring_buffer' = (ret # "ESP_ERR_NO_MEM")
          /\ tx_chan' = (ret \in {"ESP_FAIL", "ESP_OK"})
          /\ playback_task_handle' = (ret = "ESP_OK")
          /\ mainPc' = IF ret = "abort" THEN "aborted" ELSE "create_tasks"
    /\ UNCHANGED bt_err
    /\ UNCHANGED <<i2s_writers, pipeVars, wavVars, mixVars, genVars>>

\* lines 248-251: wav_player_init and what app_main does with its result.
AppWavPlayer ==
    /\ mainPc = "wav_player"
    /\ \E ret \in WAV_PLAYER_INIT_RESULTS :
          /\ ring_buffer' = (ret # "ESP_ERR_NO_MEM")
          /\ tx_chan' = (ret \in {"ESP_FAIL", "ESP_OK"})
          /\ playback_task_handle' = (ret = "ESP_OK")
          /\ mainPc' = IF ret = "abort" THEN "aborted"
                       ELSE IF ret # "ESP_OK" THEN "returned"
                       ELSE "create_tasks"
    /\ UNCHANGED bt_err
    /\ UNCHANGED <<i2s_writers, pipeVars, wavVars, mixVars, genVars>>

\* lines 254-286: embedded_audio_init and ocr_processor_init, which return
\* ESP_OK, then camera_task and audio_task are created.
AppCreateTasks ==
    /\ mainPc = "create_tasks"
    /\ camPc' = "init"
    /\ audPc' = "receive"
    /\ mainPc' = "running"
    /\ UNCHANGED <<bt_err, tx_chan, ring_buffer, playback_task_handle>>
    /\ UNCHANGED <<fb, frame_counter, result, ocr_err>>
    /\ UNCHANGED <<cur, audio_err, frequency, pattern_length, i, caller,
                   toneFreq, toneMs, audio_buffer, handled, events>>
    /\ UNCHANGED <<i2s_writers, ocr_result_queue, histVars, wavVars, mixVars, genVars>>

app_main == AppCreateQueue \/ AppBluetooth \/ AppWavPlayer \/ AppCreateTasks

\* ------------------------------------------------------------ specifications

\* The program when app_main starts: the statics have their initial values
\* (wav_player.c 24-29), no task exists.
Init ==
    /\ ocr_result_queue = <<>>
    /\ mainPc = "start"
    /\ bt_err = "none"
    /\ tx_chan = FALSE
    /\ ring_buffer = FALSE
    /\ playback_task_handle = FALSE
    /\ i2s_writers = {}
    /\ camPc = "not_created"
    /\ fb = NoFrame
    /\ frame_counter = 0
    /\ result = EmptyResult
    /\ ocr_err = "ESP_OK"
    /\ audPc = "not_created"
    /\ cur = EmptyResult
    /\ audio_err = "ESP_OK"
    /\ frequency = 0
    /\ pattern_length = 0
    /\ i = 0
    /\ caller = "play"
    /\ toneFreq = 0
    /\ toneMs = 0
    /\ audio_buffer = FALSE
    /\ pushed = 0
    /\ dropped = 0
    /\ accepted = <<>>
    /\ received = <<>>
    /\ handled = 0
    /\ events = <<>>
    /\ WavInit
    /\ MixIdle
    /\ GenIdle

Next == app_main \/ camera_task \/ audio_task

Spec == Init /\ [][Next]_vars

\* The language tags embedded_audio_play is called with (strcmp is exact and
\* case-sensitive).
Languages == {"hindi", "gujarati", "english", "", "Hindi", "tamil"}

\* audio_task has received a result and calls embedded_audio_play.
AudioHandling ==
    /\ cur \in {[text |-> "BPM", language |-> l] : l \in Languages}
    /\ ocr_result_queue = <<>>
    /\ camPc = "fb_get"
    /\ fb = NoFrame
    /\ frame_counter = 0
    /\ result = EmptyResult
    /\ ocr_err = "ESP_OK"
    /\ audPc = "play"
    /\ audio_err = "ESP_OK"
    /\ frequency = 0
    /\ pattern_length = 0
    /\ i = 0
    /\ caller = "play"
    /\ toneFreq = 0
    /\ toneMs = 0
    /\ audio_buffer = FALSE
    /\ pushed = 1
    /\ dropped = 0
    /\ accepted = <<cur>>
    /\ received = <<cur>>
    /\ handled = 0
    /\ events = <<>>

\* embedded_audio_play called with any language tag, with the I2S channel
\* created or not.
InitPlay ==
    /\ AudioHandling
    /\ tx_chan \in BOOLEAN
    /\ mainPc = IF tx_chan THEN "running" ELSE "start"
    /\ bt_err = IF tx_chan THEN "ESP_ERR_NOT_SUPPORTED" ELSE "none"
    /\ ring_buffer = tx_chan
    /\ playback_task_handle = tx_chan
    /\ i2s_writers = {}
    /\ WavInit
    /\ MixIdle
    /\ GenIdle

NextPlay == AudioCheck \/ embedded_audio

SpecPlay == InitPlay /\ [][NextPlay]_vars

\* camera_task and audio_task have not run, the I2S channel exists.
PipelineIdle ==
    /\ mainPc = "running"
    /\ bt_err = "ESP_ERR_NOT_SUPPORTED"
    /\ tx_chan = TRUE
    /\ ring_buffer = TRUE
    /\ playback_task_handle = TRUE
    /\ i2s_writers = {}
    /\ ocr_result_queue = <<>>
    /\ camPc = "fb_get"
    /\ fb = NoFrame
    /\ frame_counter = 0
    /\ result = EmptyResult
    /\ ocr_err = "ESP_OK"
    /\ audPc = "receive"
    /\ cur = EmptyResult
    /\ audio_err = "ESP_OK"
    /\ frequency = 0
    /\ pattern_length = 0
    /\ i = 0
    /\ caller = "play"
    /\ toneFreq = 0
    /\ toneMs = 0
    /\ audio_buffer = FALSE
    /\ pushed = 0
    /\ dropped = 0
    /\ accepted = <<>>
    /\ received = <<>>
    /\ handled = 0
    /\ events = <<>>

\* The player after wav_player_init, a task calling wav_player_play_file and
\* wav_player_stop one call at a time, and playback_task.
InitWav == WavInit /\ PipelineIdle /\ MixIdle /\ GenIdle

NextWav ==
    CallStop \/ CallPlay \/ wav_player_stop \/ wav_player_play_file \/ playback_task

SpecWav == InitWav /\ [][NextWav]_vars

\* The same where playback_task (priority 5, created at lines 104-111) and the
\* calling task get the processor whenever they can run; when the next call of
\* the API is made, if ever, is up to the caller.
SpecWavLive ==
    /\ SpecWav
    /\ WF_vars(playback_task)
    /\ WF_vars(wav_player_stop \/ wav_player_play_file)

\* wav_player_play_file(f) has just been called on the player as
\* wav_player_init left it (lines 120-124, is_playing false).
PlayCalled ==
    /\ is_playing = FALSE
    /\ rbPending = <<>>
    /\ rbHeld = <<>>
    /\ rbRead = 0
    /\ suspended = TRUE
    /\ pbPc = "receive"
    /\ callPc = "open"
    /\ callOp = "play"
    /\ callFile \in Files
    /\ total_read = 0
    /\ lastRet = "pending"
    /\ calls = 1
    /\ playCount = 1
    /\ streamPlay = 0
    /\ playInfo = NoPlay
    /\ out = <<>>

\* Both users of the I2S channel at work: a task plays a file while audio_task
\* handles a result.
InitOut ==
    /\ AudioHandling
    /\ mainPc = "running"
    /\ bt_err = "ESP_ERR_NOT_SUPPORTED"
    /\ tx_chan = TRUE
    /\ ring_buffer = TRUE
    /\ playback_task_handle = TRUE
    /\ i2s_writers = {}
    /\ PlayCalled
    /\ MixIdle
    /\ GenIdle

NextOut == wav_player_play_file \/ playback_task \/ AudioCheck \/ embedded_audio

SpecOut == InitOut /\ [][NextOut]_vars

\* The API used before wav_player_init was called: the statics have their
\* initial values (wav_player.c 24-29: tx_chan, ring_buffer and
\* playback_task_handle NULL, is_playing false). A task calls
\* wav_player_play_file and wav_player_stop, another embedded_audio_play.
\* playback_task does not exist; wav_player_stop finds is_playing false, the
\* end of the streaming loop and i2s_channel_write are not reached.
InitMisuse ==
    /\ AudioHandling
    /\ mainPc = "start"
    /\ bt_err = "none"
    /\ tx_chan = FALSE
    /\ ring_buffer = FALSE
    /\ playback_task_handle = FALSE
    /\ i2s_writers = {}
    /\ WavInit
    /\ MixIdle
    /\ GenIdle

NextMisuse ==
    CallStop \/ CallPlay \/ PlayOpen \/ PlayBlock \/ EmbeddedAudioPlay \/ GenerateToneEntry
        \/ AudioCheck

SpecMisuse == InitMisuse /\ [][NextMisuse]_vars

\* embedded_audio_generate_tone called with a duration.
InitTone ==
    /\ WavInit
    /\ PipelineIdle
    /\ MixIdle
    /\ \E ms \in Durations : GenCalled(ms)

NextTone == embedded_audio_generate_tone

SpecTone == InitTone /\ [][NextTone]_vars

\* wav_player_play_file has read a block of a one-channel file and up-mixes it.
InitMix ==
    /\ WavInit
    /\ PipelineIdle
    /\ \E n \in MixReads, seed \in MixSeeds : UpMixStart(seed, n)
    /\ GenIdle

NextMix == UpMixStep \/ UpMixDone

SpecMix == InitMix /\ [][NextMix]_vars

\* Files for the streaming loop alone: two- and one-channel files of lengths
\* around the block size and the ring buffer's, files shorter than their header
\* says, and an empty one.
StreamFiles ==
    { WavFile("stereo_0", "RIFF", "WAVE", "data", 2, 0, 0),
      WavFile("stereo_1", "RIFF", "WAVE", "data", 2, 1, 1),
      WavFile("stereo_4096", "RIFF", "WAVE", "data", 2, 4096, 4096),
      WavFile("stereo_4097", "RIFF", "WAVE", "data", 2, 4097, 4097),
      WavFile("stereo_6000", "RIFF", "WAVE", "data", 2, 6000, 6000),
      WavFile("stereo_20000", "RIFF", "WAVE", "data", 2, 20000, 20000),
      WavFile("stereo_short", "RIFF", "WAVE", "data", 2, 6000, 5000),
      WavFile("stereo_cut", "RIFF", "WAVE", "data", 2, 6000, 0),
      WavFile("stereo_extra", "RIFF", "WAVE", "data", 2, 5000, 6000),
      WavFile("mono_1", "RIFF", "WAVE", "data", 1, 1, 1),
      WavFile("mono_1999", "RIFF", "WAVE", "data", 1, 1999, 1999),
      WavFile("mono_2048", "RIFF", "WAVE", "data", 1, 2048, 2048),
      WavFile("mono_2049", "RIFF", "WAVE", "data", 1, 2049, 2049),
      WavFile("mono_4096", "RIFF", "WAVE", "data", 1, 4096, 4096),
      WavFile("mono_6000", "RIFF", "WAVE", "data", 1, 6000, 6000),
      WavFile("mono_short", "RIFF", "WAVE", "data", 1, 6000, 1500) }

\* What playback_task holds of an earlier file when wav_player_stop suspends it
\* between xRingbufferReceive and vRingbufferReturnItem: nothing, a part of the
\* ring buffer, or all of it.
StreamHeld == {0, 6000, 12288, RING_BUFFER_SIZE}

\* wav_player_play_file(f) has been called and is at its fopen (line 128):
\* on the player as wav_player_init left it, or after the wav_player_stop of
\* lines 121-124 has suspended playback_task with an item in its hands, which
\* the drain loop could not take back.
InitStream ==
    /\ PipelineIdle
    /\ MixIdle
    /\ GenIdle
    /\ is_playing = FALSE
    /\ rbPending = <<>>
    /\ suspended = TRUE
    /\ callPc = "open"
    /\ callOp = "play"
    /\ callFile \in StreamFiles
    /\ total_read = 0
    /\ lastRet = "pending"
    /\ out = <<>>
    /\ \E held \in StreamHeld :
          IF held = 0
          THEN /\ rbHeld = <<>>
               /\ rbRead = 0
               /\ pbPc = "receive"
               /\ calls = 1
               /\ playCount = 1
               /\ streamPlay = 0
               /\ playInfo = NoPlay
          ELSE /\ rbHeld = <<Run(1, 0, held)>>
               /\ rbRead = held % RING_BUFFER_SIZE
               /\ pbPc = "write"
               /\ calls = 2
               /\ playCount = 2
               /\ streamPlay = 1
               /\ playInfo = [NoPlay EXCEPT !.idle = FALSE, !.empty = FALSE]

NextStream == wav_player_play_file

SpecStream == InitStream /\ [][NextStream]_vars

\* The same where the calling task gets the processor whenever it can run.
SpecStreamLive == SpecStream /\ WF_vars(wav_player_play_file)

\* ------------------------------------------------------------------ claims

\* C1: the detection queue never holds more than 5 results, and a push on a
\* queue of 5 is rejected: the new result is dropped, the queued results and
\* their order stay as they were.
C1_DropNewest ==
    /\ [](Len(ocr_result_queue) <= 5)
    /\ [][(camPc = "send" /\ camPc' # "send" /\ Len(ocr_result_queue) = 5)
            => /\ ocr_result_queue' = ocr_result_queue
               /\ dropped' = dropped + 1
               /\ accepted' = accepted]_vars

\* A push has been rejected on a full queue.
C1_Witness ==
    /\ Len(ocr_result_queue) = 5
    /\ dropped > 0
    /\ camPc = "fb_return"

\* C2: what audio_task has received, followed by what is queued, is exactly
\* the sequence of accepted results in the order of acceptance.
C2_Fifo == accepted = received \o ocr_result_queue

\* Pushes and pops have interleaved, and two equal results were both delivered.
C2_Witness ==
    /\ Len(received) >= 2
    /\ received[Len(received)] = received[Len(received) - 1]
    /\ Len(accepted) >= 3

\* C3: camera_task is never blocked: whatever the queue holds and wherever
\* audio_task is, its next step can be taken (up to the bound on frames);
\* audio_task's pop is blocked exactly while the queue is empty.
C3_ProducerNeverBlocks ==
    /\ camPc = "send" => ENABLED CameraSend
    /\ camPc = "fb_return" => ENABLED CameraReturn
    /\ camPc = "init" => ENABLED CameraInit
    /\ (camPc = "fb_get" /\ frame_counter < MaxFrames) => ENABLED CameraFrame
    /\ audPc = "receive" => (ENABLED AudioReceive <=> ocr_result_queue # <<>>)

\* camera_task is about to push on a full queue while audio_task is inside
\* an output write.
C3_Witness ==
    /\ camPc = "send"
    /\ Len(ocr_result_queue) = 5
    /\ audPc = "write"

InHandling == IF audPc \in {"not_created", "receive"} THEN 0 ELSE 1

\* C4: accepted = handled + queued + (0 or 1 in handling), each received
\* result is handled once, and pushed = accepted + dropped.
C4_Conservation ==
    /\ Len(accepted) = handled + Len(ocr_result_queue) + InHandling
    /\ Len(received) = handled + InHandling
    /\ pushed = Len(accepted) + dropped

\* Results have been handled, one is in handling, one is queued, one was dropped.
C4_Witness ==
    /\ handled >= 1
    /\ dropped >= 1
    /\ audPc = "write"
    /\ Len(ocr_result_queue) >= 1

\* C5: the dispatcher's base frequency and beep count follow the table
\* hindi -> (600, 3), gujarati -> (1000, 2), anything else -> (800, 1).
C5_PatternTable ==
    audPc # "play" =>
        /\ cur.language = "hindi" => (frequency = 600 /\ pattern_length = 3)
        /\ cur.language = "gujarati" => (frequency = 1000 /\ pattern_length = 2)
        /\ cur.language \notin {"hindi", "gujarati"}
              => (frequency = 800 /\ pattern_length = 1)

\* The empty tag has been dispatched as the default pattern.
C5_Witness ==
    /\ audPc = "check"
    /\ cur.language = ""
    /\ frequency = 800
    /\ pattern_length = 1

ClaimBase(language) ==
    IF language = "hindi" THEN 600 ELSE IF language = "gujarati" THEN 1000 ELSE 800

ClaimBeeps(language) ==
    IF language = "hindi" THEN 3 ELSE IF language = "gujarati" THEN 2 ELSE 1

\* beep 0, gap, beep 1, gap, ..., beep n-1: beep k at base + 100 k Hz for 200 ms.
ClaimSequence(language) ==
    [p \in 1..(2 * ClaimBeeps(language) - 1) |->
        IF p % 2 = 1
        THEN [kind |-> "tone", freq |-> ClaimBase(language) + 100 * ((p - 1) \div 2),
              ms |-> 200]
        ELSE [kind |-> "pause", freq |-> 0, ms |-> 100]]

Requested(e) == [kind |-> e.kind, freq |-> e.freq, ms |-> e.ms]

IsPatternEvent(e) == e.by = "play"

\* C6: the tone requests and gaps of one result are, in order, beep 0, gap,
\* beep 1, ..., with no gap after the last beep; a beep being generated or
\* written is the next one of that sequence and nothing follows it until it
\* has returned; the whole sequence has been made when the play call returns.
C6_BeepSequence ==
    LET made == SelectSeq(events, IsPatternEvent)
        want == ClaimSequence(cur.language)
    IN  audPc \in {"tone", "write", "check"} =>
            /\ Len(made) <= Len(want)
            /\ \A k \in 1..Len(made) : Requested(made[k]) = want[k]
            /\ (audPc \in {"tone", "write"} /\ caller = "play")
                  => /\ Len(made) < Len(want)
                     /\ want[Len(made) + 1] =
                            [kind |-> "tone", freq |-> toneFreq, ms |-> toneMs]
            /\ audPc = "check" => Len(made) = Len(want)

\* "hindi" has been played to the end: three tones written, two gaps.
C6_Witness ==
    /\ audPc = "check"
    /\ cur.language = "hindi"
    /\ Len(events) = 5
    /\ \A k \in 1..5 : events[k].ret = "ESP_OK"
    /\ events[5].freq = 800

\* C7: when a tone of the pattern has failed, audio_task's step after the
\* play call is the fallback beep (800 Hz, 300 ms).
C7_FallbackOnFailure ==
    [][(/\ audPc = "check"
        /\ audPc' # "check"
        /\ \E k \in 1..Len(events) : events[k].kind = "tone" /\ events[k].ret # "ESP_OK")
          => /\ audPc' = "tone"
             /\ caller' = "beep"
             /\ toneFreq' = 800
             /\ toneMs' = 300]_vars

\* The runs of `runs` that play call `play` offered, without the stamp of
\* when they were written.
OfPlay(runs, play) == AppendRuns(<<>>, SelectSeq(runs, LAMBDA r : r.play = play))

RECURSIVE Plain(_)
Plain(runs) ==
    IF runs = <<>> THEN <<>>
    ELSE <<Run(Head(runs).play, Head(runs).lo, Head(runs).len)>> \o Plain(Tail(runs))

\* C8: when play(B) is called while A is playing, the flag is cleared, the
\* ring buffer drained and playback_task suspended before B's first block is
\* offered, and nothing of A is written to the output once B streams.
C8_LastCallWins ==
    (callOp = "play" /\ ~playInfo.idle) =>
        /\ callPc \in {"stream", "resume"} =>
              /\ suspended
              /\ \A k \in 1..Len(rbPending) : rbPending[k].play = playCount
        /\ \A k \in 1..Len(out) :
              out[k].during = playCount => out[k].play = playCount

TagsMatch(f) == f.riff = "RIFF" /\ f.wave = "WAVE" /\ f.data = "data"

NothingOf(play) ==
    /\ \A k \in 1..Len(rbPending) : rbPending[k].play # play
    /\ \A k \in 1..Len(rbHeld) : rbHeld[k].play # play
    /\ \A k \in 1..Len(out) : out[k].play # play

\* C9: play() of a file with a wrong RIFF, WAVE or data tag never streams; it
\* returns an error with the player idle, playback_task suspended and no byte
\* of the file offered or written.
C9_InvalidHeaderRejected ==
    (callOp = "play" /\ callFile.exists /\ callFile.header /\ ~TagsMatch(callFile)) =>
        /\ callPc \notin {"stream", "resume"}
        /\ NothingOf(playCount)
        /\ callPc = "idle" =>
              /\ lastRet = "ESP_ERR_INVALID_ARG"
              /\ ~is_playing
              /\ suspended

\* A file with a wrong data tag was rejected by a call made while playing.
C9_Witness ==
    /\ callPc = "idle"
    /\ callOp = "play"
    /\ callFile.name = "bad_data"
    /\ ~playInfo.idle
    /\ lastRet = "ESP_ERR_INVALID_ARG"

\* play() of a valid stereo file with its whole payload has returned; it was
\* called on an idle player with an empty ring buffer and lost no offer.
C10_Case ==
    /\ callOp = "play"
    /\ callPc = "idle"
    /\ lastRet = "ESP_OK"
    /\ TagsMatch(callFile)
    /\ callFile.num_channels = 2
    /\ callFile.payload >= callFile.data_size
    /\ playInfo.idle
    /\ playInfo.empty
    /\ ~playInfo.dropped

\* What the output has taken of the play call, then what playback_task is
\* writing, then what waits in the ring buffer.
C10_Stream ==
    AppendRuns(AppendRuns(Plain(out), IF pbPc = "write" THEN rbHeld ELSE <<>>), rbPending)

C10_Payload ==
    IF callFile.data_size = 0 THEN <<>> ELSE <<Run(playCount, 0, callFile.data_size)>>

C11_UpMixDuplicates ==
    mixPc \in {"done", "undefined"} =>
        /\ mixPc = "done"
        /\ bytes_read_mix = 4 * (bytes_read_mix \div 4)
        /\ LET K == bytes_read_mix \div 4
           IN  /\ DOMAIN mixInput = 0..(K - 1)
               /\ \A k \in 0..(K - 1) :
                     buffer[2 * k] = mixInput[k] /\ buffer[2 * k + 1] = mixInput[k]

\* The same for the blocks that fit: up to 1024 samples.
C11_UpMixInBounds ==
    (mixPc \in {"done", "undefined"} /\ DOMAIN mixInput \subseteq 0..(BufferWords \div 2 - 1)) =>
        /\ mixPc = "done"
        /\ LET K == bytes_read_mix \div 4
           IN  /\ DOMAIN mixInput = 0..(K - 1)
               /\ \A k \in 0..(K - 1) :
                     buffer[2 * k] = mixInput[k] /\ buffer[2 * k + 1] = mixInput[k]

\* C12: when wav_player_stop returns after it found the player playing, the
\* flag is false, no byte waits in the ring buffer and playback_task is
\* suspended; while suspended it receives nothing, and only the resume at the
\* end of wav_player_play_file ends the suspension. Violated: the drain loop
\* gets NULL while playback_task holds an item, so the bytes behind it stay.
C12_StopQuiesces ==
    [][ /\ (callPc = "stop_suspend" /\ callPc' # "stop_suspend") =>
              (~is_playing' /\ rbPending' = <<>> /\ suspended')
        /\ suspended => (rbHeld' = rbHeld /\ pbPc' = pbPc)
        /\ (suspended /\ ~suspended') => callPc = "resume" ]_vars

\* The same without the emptiness of the ring buffer.
C12_StopSuspends ==
    [][ /\ (callPc = "stop_suspend" /\ callPc' # "stop_suspend") =>
              (~is_playing' /\ suspended')
        /\ suspended => (rbHeld' = rbHeld /\ pbPc' = pbPc)
        /\ (suspended /\ ~suspended') => callPc = "resume" ]_vars

\* C13: wav_player_stop called while not playing returns ESP_OK and leaves the
\* flag, the ring buffer and playback_task as they are; whenever a stop() has
\* returned the player is not playing, so a second stop() is that no-op; and
\* no audio is left queued after it. Violated in its last part: bytes queued
\* behind an item playback_task holds survive stop() and stop(); stop().
C13_StopIdempotent ==
    [][ /\ (callPc = "idle" /\ calls' # calls /\ callOp' = "stop" /\ ~is_playing) =>
              /\ UNCHANGED <<is_playing, rbVars, suspended, pbPc, out>>
              /\ callPc' = "idle"
              /\ lastRet' = "ESP_OK"
        /\ (callPc' = "idle" /\ callOp' = "stop") =>
              (~is_playing' /\ lastRet' = "ESP_OK" /\ rbPending' = <<>>) ]_vars

\* The same without the emptiness of the ring buffer.
C13_StopTwice ==
    [][ /\ (callPc = "idle" /\ calls' # calls /\ callOp' = "stop" /\ ~is_playing) =>
              /\ UNCHANGED <<is_playing, rbVars, suspended, pbPc, out>>
              /\ callPc' = "idle"
              /\ lastRet' = "ESP_OK"
        /\ (callPc' = "idle" /\ callOp' = "stop") =>
              (~is_playing' /\ lastRet' = "ESP_OK") ]_vars

\* C14: once wav_player_play_file has returned with playback_task resumed,
\* and unless another call of the API is made, playback_task writes what is
\* buffered and then the player is not playing any more. Violated:
\* xRingbufferReceive waits with portMAX_DELAY, never returns NULL, and the
\* branch that clears is_playing and suspends the task is never taken.
C14_SelfSuspends ==
    (callPc = "idle" /\ is_playing /\ ~suspended) ~> (~is_playing \/ callPc # "idle")

\* What does happen: the buffered data is written and the task waits for more.
C14_DrainsAndWaits ==
    (callPc = "idle" /\ is_playing /\ ~suspended) ~>
        ((rbPending = <<>> /\ rbHeld = <<>> /\ pbPc = "receive") \/ callPc # "idle")

C16_ToneLength ==
    /\ SampleCount(300) = 13230
    /\ SampleCount(200) = 8820
    /\ genPc \in {"loop", "write", "done"} /\ genRet # "ESP_ERR_NO_MEM" /\ genRet # "ESP_ERR_INVALID_STATE" =>
          /\ samples = (44100 * duration_ms) \div 1000
          /\ genI <= samples
          /\ left = right
    /\ genPc \in {"write", "done"} /\ writes > 0 =>
          /\ genI = samples
          /\ writes = 1
          /\ write_size = 4 * samples

\* The 300 ms tone has been written.
C16_Witness ==
    /\ genPc = "done"
    /\ genRet = "ESP_OK"
    /\ duration_ms = 300
    /\ genI = 13230
    /\ write_size = 52920

Abs(x) == IF x < 0 THEN -x ELSE x

\* C17: the envelope of embedded_audio_generate_tone: with F = N / 10, the
\* magnitude of a sample of given raw value starts at 0 and does not decrease
\* over the first F samples, does not increase over the last F, every sample
\* between is unscaled, no sample is scaled up, and for N < 10 (F = 0) no
\* sample is scaled and nothing is divided by zero.
C17_EnvelopeMonotone ==
    /\ genPc = "entry" =>
          \A n \in 0..9, k \in 0..9, s \in RawSamples : k < n => Envelope(s, k, n) = s
    /\ (genPc = "loop" /\ genI = 0) =>
          LET n == samples
              F == CDiv(n, 10)
          IN  \A s \in RawSamples :
                  /\ F > 0 => Envelope(s, 0, n) = 0
                  /\ \A k \in 0..(n - 1) :
                        /\ Abs(Envelope(s, k, n)) <= Abs(s)
                        /\ k + 1 <= F => Abs(Envelope(s, k + 1, n)) >= Abs(Envelope(s, k, n))
                        /\ (k >= n - F /\ k + 1 < n) =>
                              Abs(Envelope(s, k + 1, n)) <= Abs(Envelope(s, k, n))
                        /\ (k >= F /\ k <= n - F) => Envelope(s, k, n) = s
    /\ (genPc = "loop" /\ genI > 0) => Abs(left) <= Abs(raw)

\* Sample 661 of the 300 ms tone, half way up the fade-in of 1323 samples,
\* has been stored.
C17_Witness ==
    /\ genPc = "loop"
    /\ samples = 13230
    /\ genI = 662
    /\ raw = Amplitude
    /\ left = 7993

\* C18: when malloc fails in embedded_audio_generate_tone (the channel
\* exists and the call returns without reaching its write), the call returns
\* ESP_ERR_NO_MEM, nothing is written, no buffer is left allocated and the
\* channel, the queue and the player are untouched; only that tone is lost,
\* the pattern goes on with its next beep.
C18_AllocFailure ==
    [][ (audPc = "tone" /\ tx_chan /\ audPc' # "write" /\ caller = "play") =>
            /\ Len(events') > Len(events)
            /\ events'[Len(events) + 1] =
                   [kind |-> "tone", by |-> "play", freq |-> toneFreq, ms |-> toneMs,
                    ret |-> "ESP_ERR_NO_MEM"]
            /\ audio_buffer' = FALSE
            /\ UNCHANGED <<bootVars, i2s_writers, ocr_result_queue, wavVars, cur, frequency,
                           pattern_length>>
            /\ i' = i + 1
            /\ IF i + 1 < pattern_length
               THEN audPc' = "tone" /\ toneFreq' = frequency + (i + 1) * 100
               ELSE audPc' = "check" ]_vars

\* The first beep of the three of "hindi" was lost to a failed malloc and the
\* second is being written.
C18_Witness ==
    /\ cur.language = "hindi"
    /\ audPc = "write"
    /\ i = 1
    /\ Len(events) = 2
    /\ events[1].ret = "ESP_ERR_NO_MEM"
    /\ "audio_task" \in i2s_writers

\* C19: used before wav_player_init, wav_player_play_file and the tone
\* generation end in a no-op or an error result and never use the NULL ring
\* buffer, task handle or I2S channel. Violated: wav_player_play_file of a
\* valid file hands the NULL ring_buffer to xRingbufferSend.
C19_MisuseIsSafe ==
    (~tx_chan /\ ~ring_buffer /\ ~playback_task_handle) =>
        /\ callPc # "undefined"
        /\ audPc # "write"
        /\ i2s_writers = {}
        /\ \A k \in 1..Len(events) :
              events[k].kind = "tone" => events[k].ret = "ESP_ERR_INVALID_STATE"

\* The half that holds: the tone generation before wav_player_init.
C19_ToneBeforeInit ==
    (~tx_chan /\ ~ring_buffer /\ ~playback_task_handle) =>
        /\ audPc # "write"
        /\ i2s_writers = {}
        /\ \A k \in 1..Len(events) :
              events[k].kind = "tone" => events[k].ret = "ESP_ERR_INVALID_STATE"

\* C20: no failure ends the process: app_main never reaches an abort.
\* Violated: ESP_ERROR_CHECK aborts when i2s_new_channel fails in
\* wav_player_init and when the NVS cannot be initialised in a2dp_sink_init.
C20_NeverAborts == mainPc # "aborted"

\* C21: when a2dp_sink_init returns ESP_ERR_NOT_SUPPORTED app_main goes on to
\* wav_player_init, and from there, the initialisations succeeding, to the
\* creation of both tasks; with any other result that is not ESP_OK app_main
\* returns and no task is ever created.
C21_NotSupportedIsNotFatal ==
    /\ [][ mainPc = "bluetooth" =>
             /\ bt_err' = "ESP_ERR_NOT_SUPPORTED" => mainPc' = "wav_player"
             /\ bt_err' \notin {"none", "ESP_ERR_NOT_SUPPORTED", "ESP_OK"} =>
                   mainPc' = "returned" ]_vars
    /\ [](mainPc = "wav_player" => ENABLED AppWavPlayer)
    /\ [](mainPc = "create_tasks" => ENABLED AppCreateTasks)
    /\ [](mainPc = "running" => (camPc # "not_created" /\ audPc # "not_created"))
    /\ [](bt_err \notin {"none", "ESP_ERR_NOT_SUPPORTED", "ESP_OK"} =>
             /\ mainPc = "returned"
             /\ camPc = "not_created" /\ audPc = "not_created"
             /\ ~ring_buffer /\ ~tx_chan /\ ~playback_task_handle)

\* Both tasks run after a2dp_sink_init returned ESP_ERR_NOT_SUPPORTED.
C21_Witness ==
    /\ bt_err = "ESP_ERR_NOT_SUPPORTED"
    /\ mainPc = "running"
    /\ camPc = "send"
    /\ audPc = "write"

\* Bytes offered to the ring buffer for a source byte of file f.
Factor(f) == IF UpMix(f) THEN 2 ELSE 1

\* C22: in the streaming loop of a file without a short read, one channel or
\* two, every turn leaves total_read at the source bytes read so far and the
\* bytes handed to xRingbufferSend at Factor times as many, and the loop ends
\* with total_read = data_size, having offered Factor * data_size bytes.
C22_CountsSourceBytes ==
    (callPc # "open" /\ callFile.payload >= callFile.data_size) =>
        /\ callPc # "undefined"
        /\ playInfo.offered = Factor(callFile) * total_read
        /\ callPc \in {"resume", "idle"} => total_read = callFile.data_size

\* C22, what holds: the same for every file whose up-mixed blocks fit the block
\* buffer (two channels, or one channel and at most WAV_BUFFER_SIZE / 2 bytes),
\* and every turn of the loop adds to total_read the bytes fread gave.
C22_CountsWhereUpMixFits ==
    /\ [](( /\ callPc # "open"
            /\ callFile.payload >= callFile.data_size
            /\ ~MixOverflows(callFile, ToRead(0, callFile.data_size)) ) =>
                /\ callPc # "undefined"
                /\ playInfo.offered = Factor(callFile) * total_read
                /\ callPc \in {"resume", "idle"} => total_read = callFile.data_size)
    /\ [][ (callPc = "stream" /\ callPc' = "stream") =>
              /\ total_read' = total_read + BytesRead(callFile, total_read)
              /\ playInfo'.offered =
                    playInfo.offered + Factor(callFile) * BytesRead(callFile, total_read) ]_vars

\* A one-channel file of 1999 bytes has been streamed: 3998 bytes offered.
C22_MonoStreamed ==
    /\ callPc = "resume" /\ UpMix(callFile)
    /\ total_read = 1999 /\ playInfo.offered = 3998

\* C23: from its fopen to the end of its streaming loop wav_player_play_file
\* runs with playback_task suspended, so nothing of the file is written to the
\* output before the loop has ended; playback_task is resumed only by the
\* vTaskResume that follows the loop.
C23_ResumedAfterStreaming ==
    /\ [](callPc \in {"open", "stream", "resume"} =>
             /\ suspended
             /\ OfPlay(out, playCount) = <<>>)
    /\ [][(suspended /\ ~suspended') => (callPc = "resume" /\ callPc' = "idle")]_vars
    /\ [][(callPc \in {"open", "stream", "resume"} /\ callPc' # "idle") => out' = out]_vars

\* A second file is being streamed after playback_task, now suspended, has
\* written a part of the first.
C23_Witness ==
    /\ callPc = "stream" /\ total_read > 0 /\ rbPending # <<>>
    /\ playCount = 2 /\ out # <<>> /\ suspended

\* The streaming loop is about to offer a block that the ring buffer has no
\* room for: xRingbufferSend will give up after its 100 ms.
C24_OfferTimesOut ==
    /\ callPc = "stream"
    /\ StreamMore(total_read, callFile.data_size)
    /\ BytesRead(callFile, total_read) > 0
    /\ ~MixOverflows(callFile, BytesRead(callFile, total_read))
    /\ ~xRingbufferSendFits(Block(playCount, callFile, total_read,
                                  BytesRead(callFile, total_read)))

C25_PlayTerminates ==
    /\ [][callPc = "stream" => (total_read' > total_read \/ callPc' = "resume")]_vars
    /\ <>(callPc = "idle")

\* C25, what holds: the same for the files whose up-mixed blocks fit the block
\* buffer, after at most one block read for each WAV_BUFFER_SIZE bytes of
\* data_size, begun or whole.
C25_TerminatesWhereUpMixFits ==
    /\ [][ (callPc = "stream" /\ ~MixOverflows(callFile, BytesRead(callFile, total_read))) =>
              (total_read' > total_read \/ callPc' = "resume") ]_vars
    /\ (callPc = "open" /\ ~MixOverflows(callFile, ToRead(0, callFile.data_size)))
          ~> (callPc = "idle" /\ lastRet = "ESP_OK")
    /\ [](playInfo.blocks * WAV_BUFFER_SIZE < callFile.data_size + WAV_BUFFER_SIZE)

\* The i2s_channel_write of playback_task returns an error: the output has
\* taken nothing.
C26_WriteFails ==
    /\ "playback_task" \in i2s_writers
    /\ "playback_task" \notin i2s_writers'
    /\ out' = out

\* C26: a failed write of playback_task changes nothing but the log: the task
\* goes to vRingbufferReturnItem with the item it holds, is neither suspended
\* nor does it clear is_playing; the item is returned once and not written
\* again, and the task is back at xRingbufferReceive, which takes the next
\* item when there is one.
C26_WriteErrorOnlyLogged ==
    /\ [][ C26_WriteFails =>
              /\ pbPc = "write" /\ pbPc' = "return"
              /\ rbHeld # <<>> /\ rbHeld' = rbHeld /\ rbPending' = rbPending
              /\ suspended' = suspended /\ is_playing' = is_playing ]_vars
    /\ [][ (pbPc = "return" /\ pbPc' # "return") =>
              /\ pbPc' = "receive" /\ rbHeld' = <<>>
              /\ out' = out /\ rbPending' = rbPending ]_vars
    /\ [](pbPc = "return" /\ ~suspended => ENABLED PlaybackReturn)
    /\ [](pbPc = "receive" /\ ~suspended /\ RbAvailable => ENABLED PlaybackReceive)

\* The write of the first item of the file being played has failed, and
\* playback_task has written a later item of the same file.
C26_Witness ==
    /\ playInfo.write_failed
    /\ OfPlay(out, playCount) # <<>>
    /\ OfPlay(out, playCount)[1].lo > 0

\* C27: camera_task calls xQueueSend at most once for a frame it obtained, and
\* only with a result of ESP_OK and a text that is not empty; a frame whose
\* result has an empty text or an error goes straight to esp_camera_fb_return
\* with the queue as it was, and every frame obtained is returned before the
\* next esp_camera_fb_get.
C27_OneOfferPerFrame ==
    /\ [][ pushed' # pushed =>
              /\ camPc = "send" /\ camPc' = "fb_return"
              /\ pushed' = pushed + 1
              /\ fb.held /\ fb' = fb
              /\ ocr_err = "ESP_OK" /\ result.text # "" ]_vars
    /\ [][ (camPc = "fb_get" /\ fb'.held /\ (ocr_err' # "ESP_OK" \/ result'.text = "")) =>
              /\ camPc' = "fb_return"
              /\ pushed' = pushed /\ ocr_result_queue' = ocr_result_queue ]_vars
    /\ [][ (camPc = "fb_return" /\ camPc' # "fb_return") =>
              (pushed' = pushed /\ ~fb'.held /\ camPc' = "fb_get") ]_vars
    /\ [](pushed <= frame_counter)
    /\ [](\A k \in 1..Len(ocr_result_queue) : ocr_result_queue[k].text # "")
    /\ [](camPc \in {"send", "fb_return"} <=> fb.held)
    /\ [](camPc = "fb_return" => ENABLED CameraReturn)

\* After results were offered, a frame with an empty text is about to be
\* returned, and nothing was offered for it.
C27_Witness ==
    /\ camPc = "fb_return" /\ fb.held /\ result.text = ""
    /\ pushed = 1 /\ frame_counter = 4

\* C28: the up-mix of a block of 1 to 4096 bytes stores only inside the
\* 4096-byte buffer, and the length it leaves for xRingbufferSend is at most
\* the size of that buffer.
C28_UpMixInsideBuffer ==
    /\ mixPc # "undefined"
    /\ mixPc = "done" => bytes_read_mix <= WAV_BUFFER_SIZE

\* C28, what holds: the same for the blocks of at most WAV_BUFFER_SIZE / 2
\* bytes.
C28_InsideUpToHalf ==
    (IF mixPc = "done" THEN bytes_read_mix \div 2 ELSE bytes_read_mix) <= WAV_BUFFER_SIZE \div 2
        => C28_UpMixInsideBuffer

\* C29 as claimed: in every state, is_playing false means that playback_task
\* is suspended.
C29_IdleMeansSuspended ==
    ~is_playing => suspended

\* wav_player_stop has cleared is_playing (line 211) and has not yet reached
\* the end of its vTaskSuspend (line 221).
C29_Stopping == callPc \in {"stop_drain", "stop_suspend"}

\* playback_task takes a step.
C29_ConsumerStep ==
    \/ pbPc' # pbPc
    \/ ("playback_task" \in i2s_writers) # ("playback_task" \in i2s_writers')

\* C29, what holds: is_playing false means that playback_task is suspended in
\* every state but those inside wav_player_stop between the clearing of the
\* flag and the vTaskSuspend; playback_task takes steps only from the
\* vTaskResume that ends a play call that streamed a file to the vTaskSuspend
\* that ends the next stop, hence also while that stop drains the ring buffer
\* with the flag already false.
C29_IdleMeansSuspendedOutsideStop ==
    /\ []((~is_playing /\ ~C29_Stopping) => suspended)
    /\ [][C29_ConsumerStep => (~suspended /\ (is_playing \/ C29_Stopping))]_vars
    /\ [][(suspended /\ ~suspended') => (callPc = "resume" /\ is_playing /\ lastRet' = "ESP_OK")]_vars
    /\ [][(~suspended /\ suspended') => (callPc = "stop_suspend" /\ ~is_playing)]_vars

\* The runs follow one another in the order in which their bytes were offered:
\* calls in the order made, and within a call ascending and disjoint.
C30_InOfferOrder(runs) ==
    \A j \in 1..Len(runs) : \A k \in (j + 1)..Len(runs) :
        \/ runs[j].play < runs[k].play
        \/ runs[j].play = runs[k].play /\ runs[j].lo + runs[j].len <= runs[k].lo

\* What the output has taken, then the item playback_task has yet to write,
\* then what waits in the ring buffer.
C30_Stream ==
    Plain(out) \o (IF pbPc = "write" THEN rbHeld ELSE <<>>) \o rbPending

\* The safety half of C30: what is written, held and waiting is in offer order
\* with no byte twice, nothing of the call under way lies outside what it
\* offered, the output grows only by the item playback_task holds, and an item
\* is handed out only when none is held and given back only by the
\* vRingbufferReturnItem of playback_task.
C30_OrderedSubsequence ==
    /\ [](C30_InOfferOrder(C30_Stream))
    /\ [](\A k \in 1..Len(C30_Stream) :
             C30_Stream[k].play = playCount =>
                 C30_Stream[k].lo + C30_Stream[k].len <= playInfo.offered)
    /\ [][out' # out => (pbPc = "write" /\ pbPc' = "return" /\ rbHeld # <<>>
                          /\ AppendRuns(<<>>, Plain(out')) =
                                AppendRuns(AppendRuns(<<>>, Plain(out)), rbHeld))]_vars
    /\ [][(rbHeld = <<>> /\ rbHeld' # <<>>) => (pbPc = "receive" /\ pbPc' = "write")]_vars
    /\ [][(rbHeld # <<>> /\ rbHeld' # rbHeld) =>
              (pbPc = "return" /\ pbPc' = "receive" /\ rbHeld' = <<>>)]_vars
    /\ [](pbPc = "receive" <=> rbHeld = <<>>)

\* C30: the bytes written are an order-preserving part of the bytes offered,
\* none of them twice, and every item playback_task receives is returned to the
\* ring buffer, once.
C30_SubsequenceAllReturned ==
    /\ C30_OrderedSubsequence
    /\ (rbHeld # <<>>) ~> (rbHeld = <<>>)

\* camera_task or audio_task comes into being.
C31_TaskCreated ==
    \/ camPc = "not_created" /\ camPc' # "not_created"
    \/ audPc = "not_created" /\ audPc' # "not_created"

\* C31: camera_task and audio_task are created together, by app_main after
\* the queue, a2dp_sink_init (ESP_OK or ESP_ERR_NOT_SUPPORTED) and
\* wav_player_init have succeeded; once app_main has returned or aborted no
\* task exists or is created. So whenever audio_task exists the I2S channel
\* does: no tone is refused for a missing channel, and every write to the
\* channel is made on the channel created.
C31_TasksAfterInit ==
    /\ [][ C31_TaskCreated =>
              /\ mainPc = "create_tasks" /\ mainPc' = "running"
              /\ camPc' # "not_created" /\ audPc' # "not_created"
              /\ bt_err \in {"ESP_OK", "ESP_ERR_NOT_SUPPORTED"}
              /\ tx_chan /\ ring_buffer /\ playback_task_handle ]_vars
    /\ [](mainPc # "running" => (camPc = "not_created" /\ audPc = "not_created"))
    /\ [][(mainPc \in {"returned", "aborted"}) => (mainPc' = mainPc)]_vars
    /\ [](audPc # "not_created" => tx_chan)
    /\ [](i2s_writers # {} => tx_chan)
    /\ [](\A k \in 1..Len(events) :
             events[k].kind = "tone" => events[k].ret # "ESP_ERR_INVALID_STATE")

\* In the running system audio_task is inside the i2s_channel_write of a tone.
C31_Witness ==
    /\ mainPc = "running" /\ tx_chan
    /\ audPc = "write" /\ "audio_task" \in i2s_writers
    /\ handled >= 1

\* embedded_audio_generate_tone returns to its caller.
C32_ToneReturns ==
    /\ audPc \in {"tone", "write"}
    /\ \/ audPc' \notin {"tone", "write"}
       \/ Len(events') > Len(events)

\* C32: audio_task has a sample buffer exactly from the malloc of a tone
\* request to the return of its i2s_channel_write. The buffer is obtained only
\* by a request that found the channel, it is released in the step in which
\* the write returns, with ESP_OK or with an error, and at no other, and every
\* request returns without a buffer: none is held between two requests or
\* once the pattern has ended.
C32_BufferFreedOnce ==
    /\ [](audio_buffer <=> audPc = "write")
    /\ [][(~audio_buffer /\ audio_buffer') => (audPc = "tone" /\ audPc' = "write" /\ tx_chan)]_vars
    /\ [][(audio_buffer /\ ~audio_buffer') =>
              /\ audPc = "write" /\ "audio_task" \in i2s_writers
              /\ "audio_task" \notin i2s_writers'
              /\ Len(events') > Len(events)
              /\ events'[Len(events) + 1].kind = "tone"
              /\ events'[Len(events) + 1].ret \in I2S_WRITE_RESULTS ]_vars
    /\ [][C32_ToneReturns => ~audio_buffer']_vars
    /\ [][(audPc = "write" /\ audPc' = "write") => audio_buffer' = audio_buffer]_vars

\* Between the second and the third beep of a pattern, after one write that
\* failed and one that succeeded: no buffer is allocated.
C32_Witness ==
    /\ audPc = "tone" /\ i = 2 /\ ~audio_buffer /\ tx_chan
    /\ \E j, k \in 1..Len(events) :
          /\ events[j].kind = "tone" /\ events[j].ret = "ESP_FAIL"
          /\ events[k].kind = "tone" /\ events[k].ret = "ESP_OK"
====
